---- MODULE Spec2Model ----
(***************************************************************************)
(* Model of the job correlation and polling engine of                      *)
(* backend/src/telegram/syntxService.ts: the marker codec                  *)
(* (addJobIdToPrompt / extractJobIdFromText), the marker wait              *)
(* (findSyntaxVideoByJobId / waitForSyntxVideoByJobId), the deprecated     *)
(* legacy wait (waitForSyntxVideo), the send/wait/download routine         *)
(* sendPromptToSyntx and the claimed-id bookkeeping                        *)
(* (getUsedVideoMessageIds).                                               *)
(*                                                                         *)
(* Text is a sequence of tokens.  The token "[JOB_ID:" stands for the      *)
(* eight literal characters of the marker prefix, " " and "\n" are the     *)
(* whitespace characters, "]" closes a marker, every other token is an     *)
(* ordinary character.  Time is counted in poll intervals (10 s).          *)
(***************************************************************************)
EXTENDS Integers, Sequences, FiniteSets, TLC

VARIABLES history, store, pc, result, requestMessageId, elapsed,
          usedSnapshot, now, sends, codec, cycleLog, thrown, actualJobId,
          download, job

vars == <<history, store, pc, result, requestMessageId, elapsed,
          usedSnapshot, now, sends, codec, cycleLog, thrown, actualJobId,
          download, job>>

----------------------------------------------------------------------------
(* Bounds of the model *)

\* longest text handed to the codec on its own
MaxTextLen == 5
\* longest message text and caption handed to the codec as a pair
MaxPartLen == 3
\* longest prompt and job id of the round trip
MaxPromptLen == 3
MaxIdLen == 2
\* number of messages the agent (or a stranger) posts into the conversation
MaxReplies == 2
\* number of sendPromptToSyntx invocations over all jobs
MaxSends == 2
\* the clock stops here
MaxTime == 3

----------------------------------------------------------------------------
(* Marker codec *)

Prefix == "[JOB_ID:"
Close == "]"
Whitespace == {" ", "\n"}

\* JavaScript undefined and null, kept apart from every text (no token is
\* called "undefined" or "null")
Undefined == <<"undefined">>
Null == <<"null">>
Raised == <<"raise">>

RECURSIVE TrimLeft(_)
TrimLeft(s) ==
  IF s # <<>> /\ Head(s) \in Whitespace THEN TrimLeft(Tail(s)) ELSE s

RECURSIVE TrimRight(_)
TrimRight(s) ==
  IF s # <<>> /\ s[Len(s)] \in Whitespace
  THEN TrimRight(SubSeq(s, 1, Len(s) - 1))
  ELSE s

\* String.prototype.trim
Trim(s) == TrimRight(TrimLeft(s))

\* faulty variant: the marker is put in front of the prompt
addJobIdToPromptFront(prompt, jobId) ==
  <<Prefix, " ">> \o jobId \o <<Close>> \o <<"\n", "\n">> \o prompt

\* `${prompt}\n\n${marker}` with marker = `[JOB_ID: ${jobId}]`
addJobIdToPrompt(prompt, jobId) ==
  prompt \o <<"\n", "\n">> \o (<<Prefix, " ">> \o jobId \o <<Close>>)

\* The ways /\[JOB_ID:\s*([^\]]+)\]/ can match text: the prefix at i, w
\* whitespace characters, a group of g >= 1 characters other than "]", then "]"
RegexMatches(text) ==
  {m \in UNION {{<<i, w, g>> : w \in 0..(Len(text) - i), g \in 1..(Len(text) - i)} :
                  i \in {k \in 1..Len(text) : text[k] = Prefix}} :
     /\ m[1] + m[2] + m[3] + 1 <= Len(text)
     /\ \A k \in (m[1] + 1)..(m[1] + m[2]) : text[k] \in Whitespace
     /\ \A k \in (m[1] + m[2] + 1)..(m[1] + m[2] + m[3]) : text[k] # Close
     /\ text[m[1] + m[2] + m[3] + 1] = Close}

\* String.prototype.match without the g flag: the leftmost start, and there
\* the greedy \s* takes as much as backtracking lets it keep
RegexFirst(text) ==
  LET ms == RegexMatches(text)
      i == CHOOSE i \in {m[1] : m \in ms} : \A m \in ms : i <= m[1]
      w == CHOOSE w \in {m[2] : m \in {n \in ms : n[1] = i}} :
             \A m \in {n \in ms : n[1] = i} : m[2] <= w
      g == CHOOSE g \in {m[3] : m \in {n \in ms : n[1] = i /\ n[2] = w}} :
             \A m \in {n \in ms : n[1] = i /\ n[2] = w} : m[3] <= g
  IN SubSeq(text, i + w + 1, i + w + g)

\* faulty variant: without the guard `if (!text) return null`, undefined.match
\* raises
extractJobIdNoGuard(text) ==
  IF text = Undefined THEN Raised
  ELSE IF RegexMatches(text) = {} THEN Null
  ELSE Trim(RegexFirst(text))

\* faulty variant: match[1] without trim()
extractJobIdNoTrim(text) ==
  IF text = Undefined \/ text = <<>> THEN Null
  ELSE IF RegexMatches(text) = {} THEN Null
  ELSE RegexFirst(text)

\* faulty variant: the last marker instead of the first
extractJobIdLast(text) ==
  IF text = Undefined \/ text = <<>> THEN Null
  ELSE IF RegexMatches(text) = {} THEN Null
  ELSE LET ms == RegexMatches(text)
           m == CHOOSE m \in ms : \A n \in ms : n[1] <= m[1]
       IN Trim(SubSeq(text, m[1] + m[2] + 1, m[1] + m[2] + m[3]))

\* if (!text) return null; match ? match[1].trim() : null
extractJobIdFromText(text) ==
  IF text = Undefined \/ text = <<>> THEN Null
  ELSE IF RegexMatches(text) = {} THEN Null
  ELSE Trim(RegexFirst(text))

----------------------------------------------------------------------------
(* Messages of the conversation with the agent *)

\* the two jobs in flight; a job id is a text without "]"
JobA == <<"a">>
JobB == <<"b">>
JobIds == {JobA, JobB}

Marker(jobId) == <<Prefix, " ">> \o jobId \o <<Close>>

\* message.fromId: absent ("none"), ourselves ("self"), the agent ("bot"),
\* another user ("other"), a chat or channel, which is no Api.User ("chat")
Senders == {"none", "self", "bot", "other", "chat"}
\* message.media: absent, MessageMediaPhoto, MessageMediaDocument without
\* and with a DocumentAttributeVideo
Media == {"none", "photo", "document", "video"}

Msg(id, from, media, text, caption, replyTo, date) ==
  [id |-> id, from |-> from, media |-> media, text |-> text,
   caption |-> caption, replyTo |-> replyTo, date |-> date]

\* `${messageText} ${caption}`.trim()
FullText(messageText, caption) == Trim(messageText \o <<" ">> \o caption)

\* client.getMessages(chat, {limit}): the most recent messages, newest first
\* as the transport documents it, or oldest first when it is asked in reverse
RECURSIVE Reverse(_)
Reverse(s) == IF s = <<>> THEN <<>> ELSE Reverse(Tail(s)) \o <<Head(s)>>

getMessages(hist, limit, newestFirst) ==
  LET n == Len(hist)
      recent == SubSeq(hist, IF n > limit THEN n - limit + 1 ELSE 1, n)
  IN IF newestFirst THEN Reverse(recent) ELSE recent

\* limit of findSyntaxVideoByJobId and of waitForSyntxVideo
MarkerLimit == 100
LegacyLimit == 50

\* timeoutMs / pollInterval: the wait budget of sendPromptToSyntx in poll
\* intervals (30 minutes of 10 s each in the code, scaled down to 2)
WaitBudget == 2
\* maxAge / pollInterval: the recency window of the temporal fallback in
\* poll intervals (20 minutes in the code, scaled down to 1)
MaxAge == 1

----------------------------------------------------------------------------
(* Claimed-id bookkeeping *)

\* getUsedVideoMessageIds: every truthy telegramVideoMessageId of the store;
\* the empty set when getAllJobs throws
getUsedVideoMessageIds(st, storeOk) ==
  IF storeOk THEN {st[j] : j \in DOMAIN st} \ {0} ELSE {}

----------------------------------------------------------------------------
(* Marker wait: one poll cycle *)

\* the sender check of the loop: the message is skipped when its sender
\* resolves to a user whose username is not the agent's; a failed lookup
\* (failed) and a sender that is no user let it through
SenderRejected(m, failed) ==
  /\ m.from # "none"
  /\ m.id \notin failed
  /\ m.from \in {"self", "other"}

\* faulty variant: any media counts as a video
HasVideoAnyMedia(m) == m.media # "none"

\* message.media is a document with a DocumentAttributeVideo
HasVideo(m) == m.media = "video"

\* faulty variant: an unmarked message with a reply-link is accepted too
MarkerMatchesOrLinked(m, jobId) ==
  \/ extractJobIdFromText(FullText(m.text, m.caption)) = jobId
  \/ extractJobIdFromText(FullText(m.text, m.caption)) = Null /\ m.replyTo # 0

\* faulty variant: the marker is not compared at all
MarkerMatchesAny(m, jobId) == TRUE

\* extractedJobId === jobId
MarkerMatches(m, jobId) ==
  extractJobIdFromText(FullText(m.text, m.caption)) = jobId

\* faulty variant: the ids in use are not looked at
AcceptsClaimed(m, used, failed, jobId) ==
  /\ ~SenderRejected(m, failed)
  /\ HasVideo(m)
  /\ MarkerMatches(m, jobId)

\* the body of the for loop: does it return this message?
Accepts(m, used, failed, jobId) ==
  /\ ~SenderRejected(m, failed)
  /\ m.id \notin used
  /\ HasVideo(m)
  /\ MarkerMatches(m, jobId)

\* faulty variant: the loop gives up after the first message of the listing
FirstAcceptedHeadOnly(messages, used, failed, jobId) ==
  IF messages = <<>> THEN 0
  ELSE IF Accepts(Head(messages), used, failed, jobId) THEN Head(messages).id
  ELSE 0

\* the first message of the listing the loop returns; 0 stands for null
RECURSIVE FirstAccepted(_, _, _, _)
FirstAccepted(messages, used, failed, jobId) ==
  IF messages = <<>> THEN 0
  ELSE IF Accepts(Head(messages), used, failed, jobId) THEN Head(messages).id
  ELSE FirstAccepted(Tail(messages), used, failed, jobId)

\* findSyntaxVideoByJobId: a throw of getMessages is caught and gives null
findSyntaxVideoByJobId(hist, st, jobId, listOk, storeOk, newestFirst, failed) ==
  IF ~listOk THEN 0
  ELSE FirstAccepted(getMessages(hist, MarkerLimit, newestFirst),
                     getUsedVideoMessageIds(st, storeOk), failed, jobId)

----------------------------------------------------------------------------
(* Legacy wait (waitForSyntxVideo): one poll cycle *)

\* videoMessages: the agent's videos of the listing that are not in the set
\* of used ids the caller handed over when the wait began
LegacyCandidates(messages, used, failed) ==
  {m \in {messages[i] : i \in DOMAIN messages} :
     /\ ~SenderRejected(m, failed)
     /\ HasVideo(m)
     /\ m.id \notin used}

\* videoMessages.sort((a, b) => b.id - a.id), then the first that fits
Newest(ms) == CHOOSE m \in ms : \A n \in ms : n.id <= m.id

\* priority 1: replyTo.replyToMsgId === requestMessageId
ReplyLinked(cands, reqId) ==
  {m \in cands : m.replyTo # 0 /\ m.replyTo = reqId}

\* faulty variant: no recency window
TemporalFallbackNoWindow(cands, reqId, t) ==
  {m \in cands : m.id > reqId}

\* priority 2: newer than the request and not older than maxAge
TemporalFallback(cands, reqId, t) ==
  {m \in cands : m.id > reqId /\ ~(t - m.date > MaxAge)}

waitForSyntxVideoCycle(hist, reqId, used, listOk, newestFirst, failed, t) ==
  IF ~listOk THEN 0
  ELSE LET cands == LegacyCandidates(getMessages(hist, LegacyLimit, newestFirst),
                                     used, failed)
       IN IF ReplyLinked(cands, reqId) # {}
          THEN Newest(ReplyLinked(cands, reqId)).id
          ELSE IF TemporalFallback(cands, reqId, t) # {}
          THEN Newest(TemporalFallback(cands, reqId, t)).id
          ELSE 0

----------------------------------------------------------------------------
(* State *)

\* where a job's sendPromptToSyntx call stands
Finished == {"ready", "timeout", "err_auth", "err_send", "err_download",
             "err_noid"}
Waiting == {"waiting", "sleeping"}
PcValues == {"idle", "called", "matched", "returned"} \cup Waiting \cup Finished

\* Job.prompt; the prompt of the second job quotes a marker
JobPrompt(j) == IF j = JobA THEN <<"x">> ELSE <<Prefix, " ", "a", Close>>

NoCodec == [kind |-> "none", a |-> <<>>, b |-> <<>>, done |-> FALSE, out |-> Null]

\* nothing downloaded: no transfer mode tried, no file at filePath
NotTried == [threw |-> FALSE, size |-> -2]
NoDownload == [file |-> NotTried, buffer |-> NotTried, size |-> -1, localPath |-> <<>>]

\* the errors sendPromptToSyntx and the waits throw; NoError: none thrown
NoError == [kind |-> "none", jobId |-> Null, seconds |-> 0]
AuthError == [kind |-> "auth", jobId |-> Null, seconds |-> 0]
SendError == [kind |-> "send", jobId |-> Null, seconds |-> 0]
DownloadError == [kind |-> "download", jobId |-> Null, seconds |-> 0]
\* "jobId обязателен для отправки промпта в Syntax"
MissingIdError == [kind |-> "noid", jobId |-> Null, seconds |-> 0]
\* faulty variant: the error does not say which job timed out
TimeoutErrorNoJob(jobId, timeout) ==
  [kind |-> "timeout", jobId |-> Null, seconds |-> timeout]

\* `... для jobId ${jobId} (${timeoutMs / 1000} секунд)`
TimeoutError(jobId, timeout) ==
  [kind |-> "timeout", jobId |-> jobId, seconds |-> timeout]

\* createJob: the record of a new job
NewJob == [status |-> "queued", requestMessageId |-> 0, localArtifactPath |-> <<>>]

InitEngine ==
  /\ store = [j \in JobIds |-> 0]
  /\ pc = [j \in JobIds |-> "idle"]
  /\ result = [j \in JobIds |-> 0]
  /\ requestMessageId = [j \in JobIds |-> 0]
  /\ elapsed = [j \in JobIds |-> 0]
  /\ usedSnapshot = [j \in JobIds |-> {}]
  /\ now = 0
  /\ sends = 0
  /\ cycleLog = [j \in JobIds |-> <<>>]
  /\ thrown = [j \in JobIds |-> NoError]
  /\ actualJobId = [j \in JobIds |-> Null]
  /\ download = [j \in JobIds |-> NoDownload]
  /\ job = [j \in JobIds |-> NewJob]

Init ==
  /\ InitEngine
  /\ history = <<>>
  /\ codec = NoCodec

----------------------------------------------------------------------------
(* sendPromptToSyntx, for the job with id j *)

\* the text handed to client.sendMessage
SentText(prompt, jobId) == addJobIdToPrompt(prompt, jobId)

\* a call begins its wait: startTime = Date.now(), nothing polled yet
BeginWait(j, jobId, reqId) ==
  /\ requestMessageId' = [requestMessageId EXCEPT ![j] = reqId]
  /\ actualJobId' = [actualJobId EXCEPT ![j] = jobId]
  /\ pc' = [pc EXCEPT ![j] = "waiting"]
  /\ elapsed' = [elapsed EXCEPT ![j] = 0]
  /\ result' = [result EXCEPT ![j] = 0]
  /\ cycleLog' = [cycleLog EXCEPT ![j] = <<>>]
  /\ thrown' = [thrown EXCEPT ![j] = NoError]
  /\ download' = [download EXCEPT ![j] = NoDownload]

\* faulty variant: a failed send is tried again
FailCallRetriesSend(j, at, error) ==
  /\ pc' = [pc EXCEPT ![j] = IF at = "err_send" THEN "called" ELSE at]
  /\ thrown' = [thrown EXCEPT ![j] = error]
  /\ download' = [download EXCEPT ![j] = NoDownload]
  /\ UNCHANGED <<requestMessageId, actualJobId, elapsed, result, cycleLog>>

\* a call ends with an error before any wait
FailCall(j, at, error) ==
  /\ pc' = [pc EXCEPT ![j] = at]
  /\ thrown' = [thrown EXCEPT ![j] = error]
  /\ download' = [download EXCEPT ![j] = NoDownload]
  /\ UNCHANGED <<requestMessageId, actualJobId, elapsed, result, cycleLog>>

\* lines 40-84 with a jobId: the authorization check, the send of the marked
\* prompt and the start of the wait
sendPromptToSyntx(j) ==
  /\ pc[j] \in ({"idle"} \cup Finished)
  /\ sends < MaxSends
  /\ sends' = sends + 1
  /\ \E authorized \in BOOLEAN, sendOk \in BOOLEAN :
       IF ~authorized
       THEN FailCall(j, "err_auth", AuthError) /\ UNCHANGED history
       ELSE IF ~sendOk
       THEN FailCall(j, "err_send", SendError) /\ UNCHANGED history
       ELSE /\ history' = Append(history,
                 Msg(Len(history) + 1, "self", "none",
                     SentText(JobPrompt(j), j), <<>>, 0, 0))
            /\ BeginWait(j, j, Len(history) + 1)
  /\ UNCHANGED <<store, usedSnapshot, now, codec>>

\* `legacy_${requestMessageId}`
Digit(n) == <<"0", "1", "2", "3", "4", "5", "6", "7", "8", "9">>[n + 1]
LegacyJobId(reqId) == <<"legacy_", Digit(reqId)>>

\* lines 40-84 with a requestMessageId and no jobId (legacy mode): nothing
\* is sent, and the wait is the marker wait for the id legacy_<requestMessageId>
sendPromptToSyntxLegacy(j, reqId) ==
  /\ pc[j] \in ({"idle"} \cup Finished)
  /\ sends < MaxSends
  /\ sends' = sends + 1
  /\ \E authorized \in BOOLEAN :
       IF ~authorized
       THEN FailCall(j, "err_auth", AuthError)
       ELSE BeginWait(j, LegacyJobId(reqId), reqId)
  /\ UNCHANGED <<history, store, usedSnapshot, now, codec>>

\* the lookups of client.getEntity(fromId) whose failure can change a
\* cycle's outcome: those of messages with media that another user sent
Lookups(hist) ==
  {hist[i].id : i \in {k \in DOMAIN hist :
                         hist[k].from \in {"self", "other"} /\ hist[k].media # "none"}}

\* what client.getMessages does in a cycle: it lists the messages, throws a
\* transient transport error, or throws AUTH_KEY_UNREGISTERED
Listings == {"ok", "error", "auth"}

\* faulty variant: a listing that threw ends the wait
EndCycleErrorEnds(j, found, outcome, took) ==
  /\ cycleLog' = [cycleLog EXCEPT ![j] = Append(@, outcome)]
  /\ IF found # 0
     THEN /\ pc' = [pc EXCEPT ![j] = "matched"]
          /\ result' = [result EXCEPT ![j] = found]
          /\ UNCHANGED elapsed
     ELSE /\ pc' = [pc EXCEPT ![j] = IF outcome = "error" THEN "timeout"
                                     ELSE "sleeping"]
          /\ elapsed' = [elapsed EXCEPT ![j] = @ + took]
          /\ UNCHANGED result

\* a cycle ends: with a match the wait returns, otherwise it sleeps one poll
\* interval; took is the time the cycle itself took, in poll intervals
EndCycle(j, found, outcome, took) ==
  /\ cycleLog' = [cycleLog EXCEPT ![j] = Append(@, outcome)]
  /\ IF found # 0
     THEN /\ pc' = [pc EXCEPT ![j] = "matched"]
          /\ result' = [result EXCEPT ![j] = found]
          /\ UNCHANGED elapsed
     ELSE /\ pc' = [pc EXCEPT ![j] = "sleeping"]
          /\ elapsed' = [elapsed EXCEPT ![j] = @ + took]
          /\ UNCHANGED result

\* faulty variant: the loop runs once more when the budget is just spent
BudgetLeftInclusive(spent) == spent <= WaitBudget

\* while (Date.now() - startTime < timeoutMs)
BudgetLeft(spent) == spent < WaitBudget

\* faulty variant: the wait claims the message it returns
PollCycleClaims(j, listings, durations) ==
  /\ pc[j] = "waiting"
  /\ BudgetLeft(elapsed[j])
  /\ \E listing \in listings, took \in durations :
       IF listing # "ok"
       THEN /\ EndCycle(j, 0, listing, took)
            /\ UNCHANGED store
       ELSE \E storeOk \in BOOLEAN, newestFirst \in BOOLEAN,
               failed \in SUBSET Lookups(history) :
              LET found == findSyntaxVideoByJobId(history, store, actualJobId[j],
                             TRUE, storeOk, newestFirst, failed)
              IN /\ EndCycle(j, found, IF found # 0 THEN "found" ELSE "empty", took)
                 /\ store' = [store EXCEPT ![j] = IF found # 0 THEN found ELSE @]
  /\ UNCHANGED <<history, requestMessageId, usedSnapshot, now, sends,
                 codec, thrown, actualJobId, download>>

\* waitForSyntxVideoByJobId, one turn of the while loop: a match ends the
\* wait, anything else (no match, or getMessages threw and
\* findSyntaxVideoByJobId caught it) sleeps one poll interval
PollCycle(j, listings, durations) ==
  /\ pc[j] = "waiting"
  /\ BudgetLeft(elapsed[j])
  /\ \E listing \in listings, took \in durations :
       IF listing # "ok"
       THEN EndCycle(j, findSyntaxVideoByJobId(history, store, actualJobId[j],
                          FALSE, TRUE, TRUE, {}), listing, took)
       ELSE \E storeOk \in BOOLEAN, newestFirst \in BOOLEAN,
               failed \in SUBSET Lookups(history) :
              LET found == findSyntaxVideoByJobId(history, store, actualJobId[j],
                             TRUE, storeOk, newestFirst, failed)
              IN EndCycle(j, found, IF found # 0 THEN "found" ELSE "empty", took)
  /\ UNCHANGED <<history, store, requestMessageId, usedSnapshot, now, sends,
                 codec, thrown, actualJobId, download>>

\* the while condition fails: the wait throws its timeout error
TimeoutWait(j) ==
  /\ pc[j] = "waiting"
  /\ ~BudgetLeft(elapsed[j])
  /\ pc' = [pc EXCEPT ![j] = "timeout"]
  /\ thrown' = [thrown EXCEPT ![j] = TimeoutError(actualJobId[j], WaitBudget)]
  /\ UNCHANGED <<history, store, result, requestMessageId, elapsed,
                 usedSnapshot, now, sends, codec, cycleLog, actualJobId,
                 download>>

\* one poll interval passes: every sleeping wait wakes up with one more
\* interval of its budget spent
Tick(clocked) ==
  /\ \E j \in JobIds : pc[j] = "sleeping"
  /\ IF clocked THEN now < MaxTime /\ now' = now + 1 ELSE UNCHANGED now
  /\ elapsed' = [j \in JobIds |-> IF pc[j] = "sleeping"
                                  THEN elapsed[j] + 1 ELSE elapsed[j]]
  /\ pc' = [j \in JobIds |-> IF pc[j] = "sleeping" THEN "waiting" ELSE pc[j]]
  /\ UNCHANGED <<history, store, result, requestMessageId, usedSnapshot,
                 sends, codec, cycleLog, thrown, actualJobId, download>>

----------------------------------------------------------------------------
(* The download step of sendPromptToSyntx *)

\* what a transfer can do: client.downloadMedia throws or returns; size is
\* the size of the file found at filePath afterwards (-1: no file) in file
\* mode, the length of the returned buffer (-1: no buffer) in buffer mode
Transfer(threw, size) == [threw |-> threw, size |-> size]
FileTransfers == {Transfer(TRUE, -1), Transfer(FALSE, -1),
                  Transfer(FALSE, 0), Transfer(FALSE, 1)}
BufferTransfers == {Transfer(TRUE, -1), Transfer(FALSE, -1),
                    Transfer(FALSE, 0), Transfer(FALSE, 1)}

\* path.join(downloadDir, fileName)
FilePath(j) == <<"downloads/", "syntx_">> \o j \o <<".mp4">>

\* faulty variant: a file of 0 bytes passes
FileModeOkAnySize(t) == ~t.threw /\ t.size # -1

\* file mode succeeds when downloadMedia returned, the file exists and its
\* size is not 0
FileModeOk(t) == ~t.threw /\ t.size # -1 /\ t.size # 0

\* faulty variant: an empty buffer passes
BufferModeOkAnySize(t) == ~t.threw /\ t.size # -1

\* buffer mode succeeds when downloadMedia returned a buffer with a length;
\* the file written from it has the buffer's size, which is checked again
BufferModeOk(t) == ~t.threw /\ t.size # -1 /\ t.size # 0

\* lines 114-171: file mode, then buffer mode when file mode failed, else
\* the download error
downloadMedia(j, fileTransfers, bufferTransfers) ==
  /\ pc[j] = "matched"
  /\ \E f \in fileTransfers :
       IF FileModeOk(f)
       THEN /\ download' = [download EXCEPT ![j] =
                 [file |-> f, buffer |-> NotTried, size |-> f.size,
                  localPath |-> FilePath(j)]]
            /\ pc' = [pc EXCEPT ![j] = "returned"]
            /\ UNCHANGED thrown
       ELSE \E b \in bufferTransfers :
              IF BufferModeOk(b)
              THEN /\ download' = [download EXCEPT ![j] =
                        [file |-> f, buffer |-> b, size |-> b.size,
                         localPath |-> FilePath(j)]]
                   /\ pc' = [pc EXCEPT ![j] = "returned"]
                   /\ UNCHANGED thrown
              ELSE /\ download' = [download EXCEPT ![j] =
                        [file |-> f, buffer |-> b,
                         size |-> IF f.threw THEN -1 ELSE f.size,
                         localPath |-> <<>>]]
                   /\ pc' = [pc EXCEPT ![j] = "err_download"]
                   /\ thrown' = [thrown EXCEPT ![j] = DownloadError]
  /\ UNCHANGED <<history, store, result, requestMessageId, elapsed,
                 usedSnapshot, now, sends, codec, cycleLog, actualJobId>>

\* the controller records the returned videoMessageId on the job
PersistVideoMessageId(j) ==
  /\ pc[j] = "returned"
  /\ store' = [store EXCEPT ![j] = result[j]]
  /\ pc' = [pc EXCEPT ![j] = "ready"]
  /\ UNCHANGED <<history, result, requestMessageId, elapsed, usedSnapshot,
                 now, sends, codec, cycleLog, thrown, actualJobId, download>>

----------------------------------------------------------------------------
(* The conversation partner *)

Shape(from, media, text, caption, linked) ==
  [from |-> from, media |-> media, text |-> text, caption |-> caption,
   linked |-> linked]

\* what arrives in the conversation while marker jobs wait
ReplyShapes ==
  { Shape("bot", "video", Marker(JobA), <<>>, Null),
    Shape("bot", "video", <<>>, Marker(JobB), Null),
    Shape("bot", "video", <<"x">>, <<>>, JobA),
    Shape("bot", "photo", Marker(JobA), <<>>, Null),
    Shape("other", "video", Marker(JobB), <<>>, Null) }

Replies(hist) == {i \in DOMAIN hist : hist[i].from # "self"}

\* the text t has the text sub in it
Occurs(sub, t) ==
  \E k \in 0..(Len(t) - Len(sub)) : SubSeq(t, k + 1, k + Len(sub)) = sub

\* a marker comes back only after it went out: the id a message carries
\* stands, as a marker, in a message we sent
Echoes(s, hist) ==
  LET id == extractJobIdFromText(FullText(s.text, s.caption))
  IN id = Null \/ \E i \in DOMAIN hist :
                     hist[i].from = "self" /\ Occurs(Marker(id), hist[i].text)

\* a message arrives; its date is the clock's, or older by age
AgentReply(shapes, ages) ==
  /\ Cardinality(Replies(history)) < MaxReplies
  /\ \E s \in {x \in shapes : Echoes(x, history)}, age \in ages :
       history' = Append(history,
          Msg(Len(history) + 1, s.from, s.media, s.text, s.caption,
              IF s.linked = Null THEN 0 ELSE requestMessageId[s.linked],
              now - age))
  /\ UNCHANGED <<store, pc, result, requestMessageId, elapsed, usedSnapshot,
                 now, sends, codec, cycleLog, thrown, actualJobId, download>>

\* the runs in which the waits of two jobs are interleaved: a transfer works
\* or throws, every listing works (a cycle that finds nothing stands for the
\* one whose listing threw) and a cycle takes no time to speak of
PlainTransfers == {Transfer(TRUE, -1), Transfer(FALSE, 1)}
PlainListings == {"ok"}

Next ==
  \/ \E j \in JobIds : sendPromptToSyntx(j) /\ UNCHANGED job
  \/ \E j \in JobIds : PollCycle(j, PlainListings, {0}) /\ UNCHANGED job
  \/ \E j \in JobIds : TimeoutWait(j) /\ UNCHANGED job
  \/ \E j \in JobIds :
       downloadMedia(j, PlainTransfers, PlainTransfers) /\ UNCHANGED job
  \/ \E j \in JobIds : PersistVideoMessageId(j) /\ UNCHANGED job
  \/ Tick(FALSE) /\ UNCHANGED job
  \/ AgentReply(ReplyShapes, {0}) /\ UNCHANGED job

Spec == Init /\ [][Next]_vars

----------------------------------------------------------------------------
(* One marker job and everything its wait can meet *)

\* what arrives in the conversation: the agent's video with the job's
\* marker, the same from a sender that is a channel and from another user,
\* and a video of the agent without a marker
WaitShapes ==
  { Shape("bot", "video", Marker(JobA), <<>>, Null),
    Shape("chat", "video", Marker(JobA), <<>>, Null),
    Shape("other", "video", Marker(JobA), <<>>, Null),
    Shape("bot", "video", <<"x">>, <<>>, Null) }

\* a cycle is over at once, or takes a poll interval (a slow transport)
CycleDurations == {0, 1}

NextWait ==
  \/ sendPromptToSyntx(JobA) /\ UNCHANGED job
  \/ PollCycle(JobA, Listings, CycleDurations) /\ UNCHANGED job
  \/ TimeoutWait(JobA) /\ UNCHANGED job
  \/ downloadMedia(JobA, FileTransfers, BufferTransfers) /\ UNCHANGED job
  \/ PersistVideoMessageId(JobA) /\ UNCHANGED job
  \/ Tick(FALSE) /\ UNCHANGED job
  \/ AgentReply(WaitShapes, {0}) /\ UNCHANGED job

SpecWait == Init /\ [][NextWait]_vars

\* every cycle that has begun completes, every sleep ends, and the loop
\* condition is evaluated
SpecWaitFair ==
  /\ SpecWait
  /\ WF_vars(PollCycle(JobA, Listings, CycleDurations) /\ UNCHANGED job)
  /\ WF_vars(TimeoutWait(JobA) /\ UNCHANGED job)
  /\ WF_vars(Tick(FALSE) /\ UNCHANGED job)

----------------------------------------------------------------------------
(* A marker job next to a legacy wait *)

\* the request of the legacy job was sent, unmarked, before the wait begins
LegacyRequest == Msg(1, "self", "none", <<"x">>, <<>>, 0, 0)

InitLegacy ==
  /\ InitEngine
  /\ history = <<LegacyRequest>>
  /\ codec = NoCodec

\* waitForSyntxVideo(client, chat, requestMessageId, timeoutMs,
\* usedVideoMessageIds) begins: the caller hands over the ids claimed at
\* that moment, and the wait keeps that set to its end
StartLegacyWait(j) ==
  /\ pc[j] \in ({"idle"} \cup Finished)
  /\ sends < MaxSends
  /\ sends' = sends + 1
  /\ usedSnapshot' = [usedSnapshot EXCEPT ![j] = getUsedVideoMessageIds(store, TRUE)]
  /\ BeginWait(j, Null, LegacyRequest.id)
  /\ UNCHANGED <<history, store, now, codec>>

\* one turn of the while loop of waitForSyntxVideo
LegacyPollCycle(j, listings, durations) ==
  /\ pc[j] = "waiting"
  /\ BudgetLeft(elapsed[j])
  /\ \E listing \in listings, took \in durations :
       IF listing # "ok"
       THEN EndCycle(j, waitForSyntxVideoCycle(history, requestMessageId[j],
                          usedSnapshot[j], FALSE, TRUE, {}, now), listing, took)
       ELSE \E newestFirst \in BOOLEAN, failed \in SUBSET Lookups(history) :
              LET found == waitForSyntxVideoCycle(history, requestMessageId[j],
                             usedSnapshot[j], TRUE, newestFirst, failed, now)
              IN EndCycle(j, found, IF found # 0 THEN "found" ELSE "empty", took)
  /\ UNCHANGED <<history, store, requestMessageId, usedSnapshot, now, sends,
                 codec, thrown, actualJobId, download>>

\* what arrives in the conversation while a legacy wait is under way
LegacyShapes ==
  { Shape("bot", "video", Marker(JobA), <<>>, Null),
    Shape("bot", "video", <<"x">>, <<>>, JobB),
    Shape("bot", "video", <<"x">>, <<>>, JobA),
    Shape("bot", "video", <<"x">>, <<>>, Null),
    Shape("other", "video", <<"x">>, <<>>, Null) }

NextLegacy ==
  \/ sendPromptToSyntx(JobA) /\ UNCHANGED job
  \/ PollCycle(JobA, PlainListings, {0}) /\ UNCHANGED job
  \/ StartLegacyWait(JobB) /\ UNCHANGED job
  \/ LegacyPollCycle(JobB, PlainListings, {0}) /\ UNCHANGED job
  \/ \E j \in JobIds : TimeoutWait(j) /\ UNCHANGED job
  \/ \E j \in JobIds :
       downloadMedia(j, PlainTransfers, PlainTransfers) /\ UNCHANGED job
  \/ \E j \in JobIds : PersistVideoMessageId(j) /\ UNCHANGED job
  \/ Tick(TRUE) /\ UNCHANGED job
  \/ AgentReply(LegacyShapes, {0, MaxAge + 1}) /\ UNCHANGED job

SpecLegacy == InitLegacy /\ [][NextLegacy]_vars

----------------------------------------------------------------------------
(* sendPromptToSyntx in legacy mode *)

\* what arrives in the conversation after the unmarked request: videos of
\* the agent with and without a reply-link to it, and a photo
LegacyModeShapes ==
  { Shape("bot", "video", <<"x">>, <<>>, JobB),
    Shape("bot", "video", <<>>, <<"x">>, Null),
    Shape("bot", "photo", <<"x">>, <<>>, JobB) }

\* the call is made with the id of the request and without a jobId; no
\* marker has gone out, so no cycle of its wait finds a match
NextLegacyMode ==
  \/ sendPromptToSyntxLegacy(JobB, LegacyRequest.id) /\ UNCHANGED job
  \/ PollCycle(JobB, {"ok", "error"}, CycleDurations) /\ UNCHANGED job
  \/ TimeoutWait(JobB) /\ UNCHANGED job
  \/ Tick(FALSE) /\ UNCHANGED job
  \/ AgentReply(LegacyModeShapes, {0}) /\ UNCHANGED job

SpecLegacyMode == InitLegacy /\ [][NextLegacyMode]_vars

----------------------------------------------------------------------------
(* sendPromptToSyntx with every combination of jobId and requestMessageId *)

\* the values the optional parameters take: jobId is undefined, the empty
\* string or a job id; requestMessageId is undefined (0) or a message id
JobIdArgs(j) == {Undefined, <<>>, j}
RequestIdArgs == {0, LegacyRequest.id}

\* JavaScript truthiness of the two parameters
TruthyJobId(jobId) == jobId # Undefined /\ jobId # <<>>
TruthyRequestId(reqId) == reqId # 0

\* faulty variant: a requestMessageId selects legacy mode even with a jobId
ModeOfRequestFirst(jobId, reqId) ==
  IF TruthyRequestId(reqId) THEN "legacy"
  ELSE IF ~TruthyJobId(jobId) THEN "missing"
  ELSE "marker"

\* if (requestMessageId && !jobId) ... else { if (!jobId) throw ...; send }
ModeOf(jobId, reqId) ==
  IF TruthyRequestId(reqId) /\ ~TruthyJobId(jobId) THEN "legacy"
  ELSE IF ~TruthyJobId(jobId) THEN "missing"
  ELSE "marker"

\* sendPromptToSyntx(prompt, customFileName, jobId, requestMessageId) is
\* called for job j: until the mode is selected, actualJobId and
\* requestMessageId hold the parameters as given
Invoke(j, jobIdArgs, requestIdArgs) ==
  /\ pc[j] \in ({"idle"} \cup Finished)
  /\ sends < MaxSends
  /\ sends' = sends + 1
  /\ \E jobId \in jobIdArgs, reqId \in requestIdArgs :
       /\ requestMessageId' = [requestMessageId EXCEPT ![j] = reqId]
       /\ actualJobId' = [actualJobId EXCEPT ![j] = jobId]
  /\ pc' = [pc EXCEPT ![j] = "called"]
  /\ elapsed' = [elapsed EXCEPT ![j] = 0]
  /\ result' = [result EXCEPT ![j] = 0]
  /\ cycleLog' = [cycleLog EXCEPT ![j] = <<>>]
  /\ thrown' = [thrown EXCEPT ![j] = NoError]
  /\ download' = [download EXCEPT ![j] = NoDownload]
  /\ UNCHANGED <<history, store, usedSnapshot, now, codec>>

\* lines 42-74: the authorization check, then the mode: legacy mode reuses
\* the requestMessageId and sends nothing, a call without a jobId fails, and
\* a call with a jobId sends the marked prompt
SelectMode(j) ==
  /\ pc[j] = "called"
  /\ \E authorized \in BOOLEAN, sendOk \in BOOLEAN :
       LET mode == ModeOf(actualJobId[j], requestMessageId[j])
       IN IF ~authorized
          THEN FailCall(j, "err_auth", AuthError) /\ UNCHANGED history
          ELSE IF mode = "legacy"
          THEN /\ BeginWait(j, LegacyJobId(requestMessageId[j]),
                            requestMessageId[j])
               /\ UNCHANGED history
          ELSE IF mode = "missing"
          THEN FailCall(j, "err_noid", MissingIdError) /\ UNCHANGED history
          ELSE IF ~sendOk
          THEN FailCall(j, "err_send", SendError) /\ UNCHANGED history
          ELSE /\ history' = Append(history,
                    Msg(Len(history) + 1, "self", "none",
                        SentText(JobPrompt(j), actualJobId[j]), <<>>, 0, 0))
               /\ BeginWait(j, actualJobId[j], Len(history) + 1)
  /\ UNCHANGED <<store, usedSnapshot, now, sends, codec>>

NextModes ==
  \/ Invoke(JobA, JobIdArgs(JobA), RequestIdArgs) /\ UNCHANGED job
  \/ SelectMode(JobA) /\ UNCHANGED job
  \/ PollCycle(JobA, Listings, CycleDurations) /\ UNCHANGED job
  \/ TimeoutWait(JobA) /\ UNCHANGED job
  \/ downloadMedia(JobA, PlainTransfers, PlainTransfers) /\ UNCHANGED job
  \/ PersistVideoMessageId(JobA) /\ UNCHANGED job
  \/ Tick(FALSE) /\ UNCHANGED job
  \/ AgentReply(WaitShapes, {0}) /\ UNCHANGED job

SpecModes == InitLegacy /\ [][NextModes]_vars

----------------------------------------------------------------------------
(* The Job Lifecycle Controller around sendPromptToSyntx *)

\* the status the controller gives a job whose call stands at p
StatusAt(p, before) ==
  IF p \in Waiting THEN "waiting_video"
  ELSE IF p \in {"matched", "returned"} THEN "downloading"
  ELSE IF p = "ready" THEN "ready"
  ELSE IF p \in Finished THEN "error"
  ELSE before

\* the controller persists a transition of job j: the status, the
\* requestMessageId once the prompt is sent, the path of the artifact once
\* the job is ready
Controller(j) ==
  job' = [job EXCEPT ![j] =
            [status |-> StatusAt(pc'[j], @.status),
             requestMessageId |->
               IF @.requestMessageId = 0 /\ pc'[j] \in Waiting
               THEN requestMessageId'[j] ELSE @.requestMessageId,
             localArtifactPath |->
               IF pc'[j] = "ready" THEN download'[j].localPath
               ELSE @.localArtifactPath]]

\* the controller picks a queued job up
PickUp(j) ==
  /\ job[j].status = "queued"
  /\ job' = [job EXCEPT ![j].status = "sending"]
  /\ UNCHANGED <<history, store, pc, result, requestMessageId, elapsed,
                 usedSnapshot, now, sends, codec, cycleLog, thrown,
                 actualJobId, download>>

\* every job is sent once by the controller, which follows each step of the
\* call with the transition of the job
NextLifecycle ==
  \/ \E j \in JobIds : PickUp(j)
  \/ \E j \in JobIds :
       job[j].status = "sending" /\ sendPromptToSyntx(j) /\ Controller(j)
  \/ \E j \in JobIds : PollCycle(j, PlainListings, {0}) /\ Controller(j)
  \/ \E j \in JobIds : TimeoutWait(j) /\ Controller(j)
  \/ \E j \in JobIds :
       downloadMedia(j, FileTransfers, BufferTransfers) /\ Controller(j)
  \/ \E j \in JobIds : PersistVideoMessageId(j) /\ Controller(j)
  \/ Tick(FALSE) /\ UNCHANGED job
  \/ AgentReply(ReplyShapes, {0}) /\ UNCHANGED job

SpecLifecycle == Init /\ [][NextLifecycle]_vars

----------------------------------------------------------------------------
(* The codec on its own *)

Texts(alphabet, n) == UNION {[1..k -> alphabet] : k \in 0..n}

CodecInput(kind, a, b) ==
  [kind |-> kind, a |-> a, b |-> b, done |-> FALSE, out |-> Null]

\* a text or undefined for extractJobIdFromText; a message text and a caption
\* for the extraction of findSyntaxVideoByJobId; a prompt and a job id
\* without "]" for the round trip
CodecInputs ==
  {CodecInput("extract", t, <<>>) :
     t \in Texts({Prefix, Close, " ", "a", "b"}, MaxTextLen) \cup {Undefined}}
  \cup
  {CodecInput("message", tc[1], tc[2]) :
     tc \in Texts({Prefix, Close, "a"}, MaxPartLen)
            \X Texts({Prefix, Close, "b"}, MaxPartLen)}
  \cup
  {CodecInput("roundtrip", pj[1], pj[2]) :
     pj \in Texts({Prefix, Close, " ", "x"}, MaxPromptLen)
            \X Texts({Prefix, " ", "a"}, MaxIdLen)}

InitCodec ==
  /\ InitEngine
  /\ history = <<>>
  /\ codec \in CodecInputs

UnchangedEngine ==
  UNCHANGED <<history, store, pc, result, requestMessageId, elapsed,
              usedSnapshot, now, sends, cycleLog, thrown, actualJobId,
              download, job>>

ApplyExtract ==
  /\ codec.kind = "extract" /\ ~codec.done
  /\ codec' = [codec EXCEPT !.done = TRUE, !.out = extractJobIdFromText(codec.a)]
  /\ UnchangedEngine

ApplyMessageExtract ==
  /\ codec.kind = "message" /\ ~codec.done
  /\ codec' = [codec EXCEPT !.done = TRUE,
                 !.out = extractJobIdFromText(FullText(codec.a, codec.b))]
  /\ UnchangedEngine

ApplyRoundTrip ==
  /\ codec.kind = "roundtrip" /\ ~codec.done
  /\ codec' = [codec EXCEPT !.done = TRUE,
                 !.out = extractJobIdFromText(SentText(codec.a, codec.b))]
  /\ UnchangedEngine

NextCodec == ApplyExtract \/ ApplyMessageExtract \/ ApplyRoundTrip

SpecCodec == InitCodec /\ [][NextCodec]_vars

----------------------------------------------------------------------------
(* Properties *)

\* the job id a message carries for the engine
Carried(m) == extractJobIdFromText(FullText(m.text, m.caption))

\* the ids claimed in the store by jobs other than j
ClaimedByOthers(j) == {store[k] : k \in JobIds \ {j}} \ {0}

\* C1: at most one claim. No two jobs with distinct job ids ever have the
\* same videoMessageId in the store, under every interleaving of the poll
\* cycles of their marker waits and of the persisting of videoMessageId.
C1_AtMostOneClaim ==
  \A j \in JobIds, k \in JobIds :
    (j # k /\ store[j] # 0) => store[j] # store[k]

\* both jobs have claimed a video
C1_Witness ==
  /\ store[JobA] # 0
  /\ store[JobB] # 0
  /\ pc[JobA] = "ready"
  /\ pc[JobB] = "ready"

\* C2: a poll cycle of the marker wait never returns a message whose id is
\* recorded as the videoMessageId of a job in the store, whatever the
\* marker, and also when the read of the store fails in that cycle.
C2_ClaimedNeverReturned ==
  [][\A j \in JobIds :
       (pc[j] = "waiting" /\ pc'[j] = "matched")
         => result'[j] \notin getUsedVideoMessageIds(store, TRUE)]_vars

\* C3: the claimed ids are read afresh on every poll cycle of every wait
\* routine: a message another job claimed after a wait began is returned by
\* no later poll cycle of that wait.
C3_FreshReadEveryCycle ==
  [][\A j \in JobIds :
       (pc[j] = "waiting" /\ pc'[j] = "matched")
         => result'[j] \notin (ClaimedByOthers(j) \ usedSnapshot[j])]_vars

\* the videos of the conversation
Videos == {i \in DOMAIN history : history[i].media = "video"}

\* jobs j and k have both sent their prompts, and the conversation holds
\* exactly one video, marked for j
DedupScenario(j, k) ==
  /\ j # k
  /\ requestMessageId[j] # 0
  /\ requestMessageId[k] # 0
  /\ Cardinality(Videos) = 1
  /\ \A i \in Videos : Carried(history[i]) = j /\ history[i].from = "bot"

\* C4: dedup scenario. With two jobs waiting on the same conversation and
\* one video marked for the first, only the first job's wait returns it; the
\* second job's wait returns nothing and ends only by its own timeout, when
\* its budget is used up.
C4_DedupScenario ==
  \A j \in JobIds, k \in JobIds :
    DedupScenario(j, k) =>
      /\ result[j] \in Videos \cup {0}
      /\ result[k] = 0
      /\ pc[k] \notin {"matched", "returned", "ready", "err_download"}
      /\ pc[k] = "timeout" => elapsed[k] >= WaitBudget

\* A has the video, B has polled in vain until its timeout
C4_Witness ==
  /\ DedupScenario(JobA, JobB)
  /\ result[JobA] \in Videos
  /\ pc[JobA] \in {"matched", "returned", "ready"}
  /\ pc[JobB] = "timeout"

\* C5: soundness of the marker match. A message the marker wait of job j
\* returned carries a document with a video attribute, and the job id
\* extracted from its text and caption is j.
C5_MatchIsSound ==
  \A j \in JobIds :
    result[j] # 0 =>
      /\ result[j] \in DOMAIN history
      /\ history[result[j]].media = "video"
      /\ Carried(history[result[j]]) = j

\* a wait returned a video whose marker is in the caption only, while a
\* photo with the job's marker was in the conversation
C5_Witness ==
  /\ result[JobB] # 0
  /\ history[result[JobB]].text = <<>>
  /\ \E i \in DOMAIN history :
       history[i].media = "photo" /\ Carried(history[i]) = JobA
  /\ pc[JobA] \in Waiting

IsPrefixOf(p, t) == Len(p) <= Len(t) /\ SubSeq(t, 1, Len(p)) = p
IsSuffixOf(q, t) == Len(q) <= Len(t) /\ SubSeq(t, Len(t) - Len(q) + 1, Len(t)) = q

\* a text has the marker prefix in it
HasPrefixToken(t) == \E i \in DOMAIN t : t[i] = Prefix

\* C6, as claimed: for every job id without "]" and every prompt the
\* extraction gives back the job id of the marked prompt.
C6_RoundTripEveryPrompt ==
  (codec.kind = "roundtrip" /\ codec.done) => codec.out = codec.b

\* C6, amended: for every job id without "]" that neither begins nor ends
\* with whitespace, and every prompt without the marker prefix "[JOB_ID:",
\* the extraction gives back the job id of the marked prompt.
C6_RoundTrip ==
  (/\ codec.kind = "roundtrip"
   /\ codec.done
   /\ ~HasPrefixToken(codec.a)
   /\ Trim(codec.b) = codec.b)
    => codec.out = codec.b

\* the round trip of a two-character id after a prompt with a "]" in it
C6_Witness ==
  /\ codec.kind = "roundtrip"
  /\ codec.done
  /\ codec.a = <<"x", Close, " ">>
  /\ codec.b = <<"a", "a">>
  /\ codec.out = <<"a", "a">>

\* a well-formed marker begins at i: the prefix, then at least one character
\* other than "]", then "]"
MarkerAt(t, i) ==
  /\ i \in DOMAIN t
  /\ t[i] = Prefix
  /\ \E k \in (i + 2)..Len(t) :
       t[k] = Close /\ \A x \in (i + 1)..(k - 1) : t[x] # Close

HasWellFormedMarker(t) == \E i \in DOMAIN t : MarkerAt(t, i)

\* C7: for a text without a well-formed marker (the empty text, undefined, a
\* text with an unterminated prefix) the extraction returns null and does
\* not raise.
C7_AbsentWithoutMarker ==
  (codec.kind = "extract" /\ codec.done /\ ~HasWellFormedMarker(codec.a))
    => codec.out = Null

\* the extraction was applied to an unterminated marker
C7_Witness ==
  /\ codec.kind = "extract"
  /\ codec.done
  /\ codec.a = <<"a", Prefix, " ", "b">>
  /\ codec.out = Null

\* C8: the text sendPromptToSyntx sends for a job begins with the job's
\* prompt, unaltered, and ends with the marker "[JOB_ID: <jobId>]".
C8_PromptThenMarker ==
  \A j \in JobIds :
    requestMessageId[j] # 0 =>
      LET sent == history[requestMessageId[j]]
      IN /\ sent.from = "self"
         /\ IsPrefixOf(JobPrompt(j), sent.text)
         /\ IsSuffixOf(<<Prefix, " ">> \o j \o <<Close>>, sent.text)

\* both jobs have sent their prompts
C8_Witness ==
  /\ requestMessageId[JobA] # 0
  /\ requestMessageId[JobB] # 0
  /\ Len(history[requestMessageId[JobB]].text) > Len(JobPrompt(JobB))

\* the id of the leftmost well-formed marker of a text: what stands between
\* its prefix and the next "]", without the whitespace around it
LeftmostMarkerId(t) ==
  LET i == CHOOSE i \in DOMAIN t :
             MarkerAt(t, i) /\ \A h \in 1..(i - 1) : ~MarkerAt(t, h)
      k == CHOOSE k \in (i + 1)..Len(t) :
             t[k] = Close /\ \A x \in (i + 1)..(k - 1) : t[x] # Close
  IN Trim(SubSeq(t, i + 1, k - 1))

\* C9: the extraction returns the id of the leftmost well-formed marker,
\* wherever it stands in a text; for a message the text searched is the
\* message text followed by the caption, so a marker that stands in the
\* caption only is found, and of several markers the leftmost one counts.
C9_LeftmostMarker ==
  /\ (/\ codec.kind = "message"
      /\ codec.done
      /\ HasWellFormedMarker(codec.a \o <<" ">> \o codec.b))
       => codec.out = LeftmostMarkerId(codec.a \o <<" ">> \o codec.b)
  /\ (/\ codec.kind = "extract"
      /\ codec.done
      /\ HasWellFormedMarker(codec.a))
       => codec.out = LeftmostMarkerId(codec.a)

\* a marker in the text and another in the caption: the text's id wins
C9_Witness ==
  /\ codec.kind = "message"
  /\ codec.done
  /\ codec.a = <<Prefix, "a", Close>>
  /\ codec.b = <<Prefix, "b", Close>>
  /\ codec.out = <<"a">>

\* message i is an unmarked video that is reply-linked to job j's request
LinkedUnmarked(i, j) ==
  /\ history[i].media = "video"
  /\ requestMessageId[j] # 0
  /\ history[i].replyTo = requestMessageId[j]
  /\ Carried(history[i]) = Null

\* message i is an unclaimed video of the agent with job j's marker
MarkedFor(i, j) ==
  /\ history[i].media = "video"
  /\ history[i].from = "bot"
  /\ Carried(history[i]) = j
  /\ i \notin getUsedVideoMessageIds(store, TRUE)

\* C10: marker precedence. When the conversation holds a video with job j's
\* marker and a later, unmarked video that is reply-linked to j's request,
\* a poll cycle of j's marker wait returns a marked video and the wait
\* never returns the reply-linked one.
C10_MarkerPrecedence ==
  \A j \in JobIds :
    \A i \in DOMAIN history, r \in DOMAIN history :
      (i < r /\ MarkedFor(i, j) /\ LinkedUnmarked(r, j)) =>
        /\ result[j] # r
        /\ \A newestFirst \in BOOLEAN :
             LET found == findSyntaxVideoByJobId(history, store, j, TRUE, TRUE,
                                                 newestFirst, {})
             IN found # 0 /\ Carried(history[found]) = j

\* the wait returned the marked video although the reply-linked one is newer
C10_Witness ==
  \E i \in DOMAIN history, r \in DOMAIN history :
    /\ i < r
    /\ LinkedUnmarked(r, JobA)
    /\ history[i].media = "video"
    /\ Carried(history[i]) = JobA
    /\ result[JobA] = i
    /\ pc[JobA] = "matched"

\* the cycles of job j's wait that took a poll interval themselves: what the
\* wait has spent beyond one interval of sleep per cycle
SlowCycles(j) == elapsed[j] - Len(cycleLog[j])

\* C11, as claimed: with a budget of 2 poll intervals a wait that finds no
\* match fails with its timeout after exactly 2 poll cycles, and not before
\* the budget has elapsed.
C11_ExactlyTwoCycles ==
  \A j \in JobIds :
    pc[j] = "timeout" =>
      /\ Len(cycleLog[j]) = WaitBudget
      /\ elapsed[j] >= WaitBudget

\* C11, amended: with a budget of 2 poll intervals a wait that finds no
\* match fails with its timeout after at least 1 and at most 2 poll cycles,
\* after exactly 2 when no cycle took a poll interval itself; it does not
\* fail before the budget has elapsed, and no cycle begins once the time
\* spent has reached the budget.
C11_TimeoutScenario ==
  /\ [](\A j \in JobIds :
          pc[j] = "timeout" =>
            /\ elapsed[j] >= WaitBudget
            /\ Len(cycleLog[j]) \in 1..WaitBudget
            /\ (SlowCycles(j) = 0 => Len(cycleLog[j]) = WaitBudget)
            /\ \A i \in DOMAIN cycleLog[j] : cycleLog[j][i] # "found")
  /\ [][\A j \in JobIds :
          Len(cycleLog'[j]) > Len(cycleLog[j]) => elapsed[j] < WaitBudget]_vars

\* the wait found nothing in two quick cycles and timed out
C11_Witness ==
  /\ pc[JobA] = "timeout"
  /\ cycleLog[JobA] = <<"empty", "empty">>
  /\ elapsed[JobA] = WaitBudget
  /\ history # <<>>

\* C12: every wait terminates. When every poll cycle completes, a wait of
\* waitForSyntxVideoByJobId ends, and it ends either by returning a matched
\* message or, once the maximum wait duration has elapsed, by a timeout
\* error that carries the job id and that duration.
C12_EveryWaitTerminates ==
  /\ \A j \in JobIds : (pc[j] \in Waiting) ~> (pc[j] \notin Waiting)
  /\ [][\A j \in JobIds :
          (pc[j] \in Waiting /\ pc'[j] \notin Waiting)
            => \/ pc'[j] = "matched" /\ result'[j] \in DOMAIN history
               \/ /\ pc'[j] = "timeout"
                  /\ elapsed[j] >= WaitBudget
                  /\ thrown'[j].kind = "timeout"
                  /\ thrown'[j].jobId = j
                  /\ thrown'[j].seconds = WaitBudget]_vars

\* a wait whose first cycle was slow has ended with the timeout error
C12_Witness ==
  /\ pc[JobA] = "timeout"
  /\ thrown[JobA].jobId = JobA
  /\ Len(cycleLog[JobA]) = 1
  /\ elapsed[JobA] >= WaitBudget

\* C13: tie-break. When several unclaimed videos of the agent carry the
\* job's marker, the poll cycle that returns one of them returns the one
\* with the highest message id, in whatever order the transport lists the
\* messages.
C13_HighestIdWins ==
  [][\A j \in JobIds :
       (pc[j] = "waiting" /\ pc'[j] = "matched")
         => \A i \in DOMAIN history : MarkedFor(i, j) => i <= result'[j]]_vars

\* the messages whose sender the transport can be asked about
WithSender == {i \in DOMAIN history : history[i].from # "none"}

\* message i is an unclaimed video with job j's marker, whoever sent it
Eligible(i, j) ==
  /\ history[i].media = "video"
  /\ Carried(history[i]) = j
  /\ i \notin getUsedVideoMessageIds(store, TRUE)

\* C14: identity filter. A poll cycle in which the lookup of a message's
\* sender succeeds and gives an identity other than the agent's does not
\* return that message; a message whose sender lookup fails is not excluded
\* and, when it is the one eligible message, is returned by that cycle.
C14_IdentityFilter ==
  \A j \in JobIds, failed \in SUBSET WithSender, newestFirst \in BOOLEAN :
    LET found == findSyntaxVideoByJobId(history, store, j, TRUE, TRUE,
                                        newestFirst, failed)
    IN /\ (found # 0 /\ found \notin failed)
            => history[found].from \in {"bot", "none"}
       /\ \A i \in failed :
            (Eligible(i, j) /\ \A k \in DOMAIN history \ {i} : ~Eligible(k, j))
              => found = i

\* job j's call was made in legacy mode
IsLegacy(j) ==
  requestMessageId[j] # 0 /\ actualJobId[j] = LegacyJobId(requestMessageId[j])

\* message i is an unclaimed video of the agent that is reply-linked to the
\* request of job j
LinkedAgentVideo(i, j) ==
  /\ history[i].media = "video"
  /\ history[i].from = "bot"
  /\ history[i].replyTo = requestMessageId[j]
  /\ i \notin getUsedVideoMessageIds(store, TRUE)

\* C15: reply-link match in legacy mode. A poll cycle of a wait that was
\* started in legacy mode, whose listing works and holds an unclaimed video
\* of the agent reply-linked to the requestMessageId, returns such a video.
C15_ReplyLinkAccepted ==
  [][\A j \in JobIds :
       (/\ IsLegacy(j)
        /\ Len(cycleLog'[j]) = Len(cycleLog[j]) + 1
        /\ cycleLog'[j][Len(cycleLog'[j])] \notin {"error", "auth"}
        /\ \E i \in DOMAIN history : LinkedAgentVideo(i, j))
         => /\ pc'[j] = "matched"
            /\ LinkedAgentVideo(result'[j], j)]_vars

\* job j waits with waitForSyntxVideo
UsesLegacyWait(j) == requestMessageId[j] # 0 /\ actualJobId[j] = Null

\* the age of message i, in poll intervals
Age(i) == now - history[i].date

C17_Lifecycle ==
  /\ [](\A j \in JobIds :
          /\ (pc[j] = "idle" /\ requestMessageId[j] = 0)
               => job[j].status \in {"queued", "sending"} /\ store[j] = 0
          /\ pc[j] \in Waiting
               => /\ job[j].status = "waiting_video"
                  /\ job[j].requestMessageId = requestMessageId[j]
                  /\ job[j].requestMessageId \in DOMAIN history
                  /\ history[job[j].requestMessageId].from = "self"
          /\ job[j].status = "ready"
               => /\ pc[j] = "ready"
                  /\ store[j] # 0
                  /\ store[j] = result[j]
                  /\ job[j].localArtifactPath # <<>>
                  /\ download[j].size > 0
          /\ pc[j] \in {"returned", "ready"} => download[j].size > 0)
  /\ [][\A j \in JobIds :
          /\ job[j].requestMessageId # 0
               => job'[j].requestMessageId = job[j].requestMessageId
          /\ store[j] # 0 => store'[j] = store[j]
          /\ job'[j].status = "queued" => job[j].status = "queued"]_vars

\* both jobs are ready, one through each transfer mode
C17_Witness ==
  /\ job[JobA].status = "ready"
  /\ job[JobB].status = "ready"
  /\ download[JobA].buffer = NotTried
  /\ download[JobB].file.size = 0
  /\ download[JobB].size > 0

\* a transfer that threw, left no file or buffer, or left 0 bytes
TransferFailed(t) == t.threw \/ t.size = -1 \/ t.size = 0

\* C18: download fallback. The file mode is used first; the buffer mode is
\* attempted exactly when the file mode failed, a missing or zero-byte file
\* counting as failure; the step fails only after both modes failed; and the
\* call returns a result only when the artifact on disk has size > 0.
C18_DownloadFallback ==
  \A j \in JobIds :
    /\ download[j].buffer # NotTried => download[j].file # NotTried
    /\ download[j].file # NotTried
         => (download[j].buffer # NotTried <=> TransferFailed(download[j].file))
    /\ pc[j] = "err_download"
         => /\ download[j].file # NotTried /\ TransferFailed(download[j].file)
            /\ download[j].buffer # NotTried /\ TransferFailed(download[j].buffer)
    /\ (download[j].file # NotTried /\ pc[j] # "err_download")
         => /\ pc[j] \in {"returned", "ready"}
            /\ download[j].size > 0
            /\ download[j].localPath = FilePath(j)
    /\ pc[j] \in {"returned", "ready"} => download[j].size > 0

\* the artifact came through the buffer mode after a zero-byte file, in the
\* second call for the job
C18_Witness ==
  /\ pc[JobA] = "returned"
  /\ download[JobA].file = Transfer(FALSE, 0)
  /\ download[JobA].buffer = Transfer(FALSE, 1)
  /\ sends = 2

\* the outcome of the cycle of job j that has just ended in this step
CycleEnded(j, outcome) ==
  /\ Len(cycleLog'[j]) = Len(cycleLog[j]) + 1
  /\ cycleLog'[j][Len(cycleLog'[j])] = outcome

\* C19: transient errors inside the polling loop do not fail the wait. A
\* transport error raised while listing messages is swallowed: the cycle
\* ends in a sleep of one poll interval with no error thrown, after the sleep
\* the wait polls again, and the wait fails only once the budget is spent.
C19_TransientErrorsSwallowed ==
  /\ [](\A j \in JobIds :
          /\ pc[j] \in Waiting => thrown[j] = NoError
          /\ pc[j] = "timeout"
               => elapsed[j] >= WaitBudget /\ thrown[j].kind = "timeout")
  /\ [][\A j \in JobIds :
          /\ CycleEnded(j, "error")
               => /\ pc'[j] = "sleeping"
                  /\ thrown'[j] = NoError
                  /\ result'[j] = 0
          /\ (pc[j] = "sleeping" /\ pc'[j] # "sleeping")
               => pc'[j] = "waiting" /\ elapsed'[j] = elapsed[j] + 1
          /\ (pc[j] \in Waiting /\ pc'[j] \notin Waiting)
               => \/ pc'[j] = "matched"
                  \/ pc'[j] = "timeout" /\ elapsed[j] >= WaitBudget]_vars

\* the match was returned by the cycle that followed a listing error
C19_Witness ==
  /\ pc[JobA] = "matched"
  /\ Len(cycleLog[JobA]) = 2
  /\ cycleLog[JobA][1] = "error"
  /\ cycleLog[JobA][2] = "found"
  /\ result[JobA] # 0

\* C20: an authentication failure of the transport session is fatal and not
\* retried. Once the transport reports that the session is invalid, at the
\* initial authorization check or in a poll cycle, the call surfaces an error
\* and performs no further transport operation for the job.
C20_AuthFailureFatal ==
  [][\A j \in JobIds :
       /\ CycleEnded(j, "auth")
            => pc'[j] = "err_auth" /\ thrown'[j] = AuthError
       /\ (pc[j] = "err_auth" /\ sends' = sends)
            => /\ pc'[j] = "err_auth"
               /\ cycleLog'[j] = cycleLog[j]
               /\ download'[j] = download[j]]_vars

\* job j is inside waitForSyntxVideoByJobId before the step and the step is
\* one of that wait: a poll cycle ends, or the wait times out
StepOfWait(j) ==
  /\ pc[j] = "waiting"
  /\ \/ Len(cycleLog'[j]) = Len(cycleLog[j]) + 1
     \/ pc'[j] = "timeout"

\* C21: the correlation wait has no side effects beyond transport reads.
\* No step of waitForSyntxVideoByJobId changes the peer's message history or
\* any Job record of the Job Store; a videoMessageId is written only by the
\* controller's persist step, after the call has returned.
C21_WaitHasNoSideEffects ==
  [][\A j \in JobIds :
       /\ StepOfWait(j)
            => history' = history /\ store' = store /\ job' = job
       /\ store'[j] # store[j]
            => /\ pc[j] = "returned" /\ pc'[j] = "ready"
               /\ store'[j] = result[j]]_vars

\* a wait has returned its match after two poll cycles, the second one run
\* while the other job's claim was in the store, and nothing is claimed for it
C21_Witness ==
  /\ pc[JobA] = "matched"
  /\ Len(cycleLog[JobA]) = 2
  /\ result[JobA] # 0
  /\ store[JobA] = 0
  /\ store[JobB] # 0

\* how the transport and the Job Store can behave in one poll cycle whose
\* listing succeeds: the store read works or not, the listing is newest or
\* oldest first, and some sender lookups fail
CycleBehaviours(hist) ==
  [storeOk : BOOLEAN, newestFirst : BOOLEAN, failed : SUBSET Lookups(hist)]

\* what a poll cycle for jobId returns under behaviour b
Rerun(hist, st, jobId, b) ==
  findSyntaxVideoByJobId(hist, st, jobId, TRUE, b.storeOk, b.newestFirst,
                         b.failed)

Outbound(hist) == {i \in DOMAIN hist : hist[i].from = "self"}

\* the call of job j has ended with an error
Failed(j) == pc[j] \in Finished \ {"ready"}

\* C23: no automatic retry. One invocation of sendPromptToSyntx sends at
\* most one outbound message: exactly one in marker mode, before the first
\* poll, and none in legacy mode. After a failure of the send, the wait or
\* the download it neither sends again nor restarts the wait: it has ended
\* with an error.
C23_NoAutomaticRetry ==
  /\ [](\A j \in JobIds :
          /\ Cardinality(Outbound(history)) <= Cardinality(Outbound(<<LegacyRequest>>)) + sends
          /\ Failed(j) => thrown[j] # NoError
          /\ (pc[j] \in Waiting /\ actualJobId[j] = j)
               => /\ requestMessageId[j] \in Outbound(history)
                  /\ MarkerMatches(history[requestMessageId[j]], j))
  /\ [][\A j \in JobIds :
          /\ Outbound(history') # Outbound(history)
               => /\ history' = Append(history, history'[Len(history')])
                  /\ \E k \in JobIds :
                       /\ pc[k] = "called" /\ pc'[k] = "waiting"
                       /\ ModeOf(actualJobId[k], requestMessageId[k]) = "marker"
                       /\ cycleLog'[k] = <<>>
                       /\ requestMessageId'[k] = Len(history')
          /\ (pc[j] = "called" /\ pc'[j] = "waiting"
                /\ ModeOf(actualJobId[j], requestMessageId[j]) = "legacy")
               => history' = history
          /\ (thrown[j] = NoError /\ thrown'[j] # NoError) => Failed(j)'
          /\ (Failed(j) /\ sends' = sends)
               => /\ pc'[j] = pc[j]
                  /\ thrown'[j] = thrown[j]
                  /\ cycleLog'[j] = cycleLog[j]
                  /\ elapsed'[j] = elapsed[j]
                  /\ Outbound(history') = Outbound(history)]_vars

\* a call in marker mode sent its one message and ended after the agent's
\* video had arrived; the call in legacy mode that followed sent nothing and
\* timed out
C23_Witness ==
  /\ sends = 2
  /\ pc[JobA] = "timeout"
  /\ actualJobId[JobA] = LegacyJobId(LegacyRequest.id)
  /\ Cardinality(Outbound(history)) = 2
  /\ \E i \in DOMAIN history : history[i].from = "bot" /\ MarkerMatches(history[i], JobA)

\* C24: the temporal fallback is applied only to candidates without a
\* reply-link. A video that carries a reply-link to a request other than the
\* waiting job's requestMessageId is never returned by the legacy wait, even
\* when its id is greater than requestMessageId and it lies within the
\* recency window.
C24_FallbackOnlyUnlinked ==
  \A j \in JobIds :
    (UsesLegacyWait(j) /\ result[j] # 0)
      => history[result[j]].replyTo \in {0, requestMessageId[j]}

\* message i is among the most recent MarkerLimit messages and is a video of
\* the agent, claimed by no job, whose marker is the id job j waits for
UnclaimedAnswer(i, j) ==
  /\ i \in DOMAIN history
  /\ i > Len(history) - MarkerLimit
  /\ history[i].from = "bot"
  /\ history[i].media = "video"
  /\ extractJobIdFromText(FullText(history[i].text, history[i].caption))
       = actualJobId[j]
  /\ \A k \in JobIds : store[k] # history[i].id

\* C25: completeness of a poll cycle. If, at a poll cycle that starts before
\* the deadline and whose reads succeed, the most recent 100 messages contain
\* an unclaimed video of the agent whose marker equals the target job id,
\* that cycle returns a message with that marker and the wait ends there,
\* without a further sleep or a timeout.
C25_CycleIsComplete ==
  [][\A j \in JobIds :
       ( /\ pc[j] = "waiting"
         /\ CycleEnded(j, "found") \/ CycleEnded(j, "empty")
         /\ \E i \in DOMAIN history : UnclaimedAnswer(i, j) )
       => /\ pc'[j] = "matched"
          /\ result'[j] \in DOMAIN history
          /\ HasVideo(history[result'[j]])
          /\ extractJobIdFromText(FullText(history[result'[j]].text,
                                           history[result'[j]].caption))
               = actualJobId[j]
          /\ elapsed'[j] = elapsed[j]
          /\ elapsed[j] < WaitBudget]_vars

\* the first cycle returned the agent's marked video although an unmarked
\* video of the agent is in the listing too
C25_Witness ==
  /\ pc[JobA] = "matched"
  /\ cycleLog[JobA] = <<"found">>
  /\ history[result[JobA]].from = "bot"
  /\ \E i \in DOMAIN history :
       /\ history[i].from = "bot"
       /\ HasVideo(history[i])
       /\ ~MarkerMatches(history[i], JobA)

\* message i is a video of the agent with the marker of job j, and its id
\* is what job j itself has stored as its videoMessageId
OwnClaimedAnswer(i, j) ==
  /\ i \in DOMAIN history
  /\ i > Len(history) - MarkerLimit
  /\ history[i].from = "bot"
  /\ history[i].media = "video"
  /\ extractJobIdFromText(FullText(history[i].text, history[i].caption))
       = actualJobId[j]
  /\ store[j] = history[i].id

StoredIds == {store[k] : k \in JobIds} \ {0}

ModeSelected(j) == pc[j] = "called" /\ pc'[j] # "called"

\* the call of job j has entered legacy mode in this step: it waits for the
\* id legacy_<requestMessageId>, with the supplied requestMessageId, and
\* nothing was sent
EntersLegacy(j) ==
  /\ pc'[j] = "waiting"
  /\ history' = history
  /\ requestMessageId'[j] = requestMessageId[j]
  /\ actualJobId'[j] = LegacyJobId(requestMessageId[j])

\* the call of job j has sent a new message with the marker of jobId in this
\* step and waits for that id, with the id of the new message
SendsMarked(j, jobId) ==
  /\ pc'[j] = "waiting"
  /\ history' = Append(history, history'[Len(history')])
  /\ history'[Len(history')].from = "self"
  /\ extractJobIdFromText(history'[Len(history')].text) = jobId
  /\ requestMessageId'[j] = Len(history')
  /\ actualJobId'[j] = jobId

\* C27: mode selection and missing id. sendPromptToSyntx enters legacy mode
\* (no send, the supplied requestMessageId reused) only when a
\* requestMessageId is given and no jobId is given; when neither is given it
\* fails with an error before any message is sent and before any poll; and
\* when a jobId is given it never enters legacy mode: unless the
\* authorization check or the send fails, a new message with the marker is
\* sent, whether or not a requestMessageId is given too.
C27_ModeSelection ==
  [][\A j \in JobIds :
       ModeSelected(j) =>
         LET jobId == actualJobId[j]
             reqId == requestMessageId[j]
         IN /\ EntersLegacy(j) => (TruthyRequestId(reqId) /\ ~TruthyJobId(jobId))
            /\ (TruthyRequestId(reqId) /\ ~TruthyJobId(jobId))
                 => EntersLegacy(j) \/ (pc'[j] = "err_auth" /\ history' = history)
            /\ (~TruthyRequestId(reqId) /\ ~TruthyJobId(jobId))
                 => /\ Failed(j)'
                    /\ thrown'[j] \in {MissingIdError, AuthError}
                    /\ history' = history
                    /\ cycleLog'[j] = <<>>
            /\ TruthyJobId(jobId)
                 => \/ SendsMarked(j, jobId)
                    \/ /\ pc'[j] \in {"err_auth", "err_send"}
                       /\ history' = history]_vars

\* after a call in marker mode has sent its message, a call with a
\* requestMessageId and no jobId has entered legacy mode and sent nothing
C27_Witness ==
  /\ sends = 2
  /\ pc[JobA] = "waiting"
  /\ cycleLog[JobA] = <<>>
  /\ requestMessageId[JobA] = LegacyRequest.id
  /\ actualJobId[JobA] = LegacyJobId(LegacyRequest.id)
  /\ Cardinality(Outbound(history)) = 2

====
